---- MODULE Spec2Model ----
(***************************************************************************)
(* Voice command relay (server.py): STT -> LLM -> sanitize -> TTS -> PCM.  *)
(* Text is modelled as a sequence of one-character strings, JSON values as *)
(* tagged records, and a Python call that may raise as a record carrying   *)
(* either the value or the exception class.                                *)
(***************************************************************************)
EXTENDS Integers, Sequences, FiniteSets, TLC

\* ---------------------------------------------------------------- bounds
MaxCleanLen == 4        \* longest input string of the sanitizer runs
MaxReplyLen == 2        \* longest provider-supplied reply text
MaxTranscriptLen == 2   \* longest provider-supplied transcript text
MaxPcmIn == 2           \* longest request body, in bytes
MaxMp3 == 2             \* longest synthesized MP3 stream, in frames
MaxWavPayload == 16     \* longest payload of a WAV stream given to the header strip

\* ------------------------------------------------------------- alphabet
NL == "\n"
Whitespace == {" ", NL}
CleanAlphabet == {"a", "*", "#", "[", "]", " ", NL}
ReplyAlphabet == {"a", "*", " "}
TranscriptAlphabet == {"a", " "}

SeqsUpTo(A, n) == UNION {[1..k -> A] : k \in 0..n}

\* ------------------------------------------------- fixed program strings
CLARIFICATION_PROMPT ==
    <<"N", "o", " ", "a", "u", "d", "i", "o", " ", "p", "a", "y", "l", "o", "a", "d", " ", "d", "e", "t", "e", "c", "t", "e", "d", ".", " ", "S", "p", "e", "a", "k", " ", "c", "l", "e", "a", "r", "l", "y", ".">>
DEFAULT_ERROR_MESSAGE ==
    <<"S", "o", "r", "r", "y", ",", " ", "I", " ", "e", "n", "c", "o", "u", "n", "t", "e", "r", "e", "d", " ", "a", "n", " ", "u", "n", "k", "n", "o", "w", "n", " ", "e", "r", "r", "o", "r", " ", "d", "u", "r", "i", "n", "g", " ", "p", "r", "o", "c", "e", "s", "s", "i", "n", "g", ".", " ", "S", "t", "a", "t", "u", "s", " ", "u", "p", "d", "a", "t", "e", " ", "f", "a", "i", "l", "e", "d", ".">>
CONNECTION_FAILURE_TEXT ==
    <<"C", "o", "n", "n", "e", "c", "t", "i", "o", "n", " ", "f", "a", "i", "l", "u", "r", "e", ".", " ", "W", "e", "'", "r", "e", " ", "r", "u", "n", "n", "i", "n", "g", " ", "o", "u", "t", " ", "o", "f", " ", "t", "i", "m", "e", ".">>
INVALID_DATA_TEXT ==
    <<"I", "n", "v", "a", "l", "i", "d", " ", "d", "a", "t", "a", " ", "s", "t", "r", "e", "a", "m", ".", " ", "S", "y", "s", "t", "e", "m", " ", "i", "n", "t", "e", "g", "r", "i", "t", "y", " ", "c", "o", "m", "p", "r", "o", "m", "i", "s", "e", "d", ".">>
TTS_CONVERSION_ERROR == "TTS_CONVERSION_ERROR"
OCTET_STREAM == "application/octet-stream"
WAV_HEADER_SIZE == 44
TARGET_FRAME_RATE == 16000
TARGET_CHANNELS == 1
TARGET_SAMPLE_WIDTH == 2

\* ------------------------------------------------------ text sanitizer
SetMin(S) == CHOOSE x \in S : \A y \in S : x <= y
SetMax(S) == CHOOSE x \in S : \A y \in S : x >= y

\* the characters of s at the positions of K within lo..hi, in order
RECURSIVE Pick(_, _, _, _)
Pick(s, K, lo, hi) ==
    IF lo > hi THEN <<>>
    ELSE IF lo = hi THEN (IF lo \in K THEN <<s[lo]>> ELSE <<>>)
    ELSE LET mid == (lo + hi) \div 2
         IN  Pick(s, K, lo, mid) \o Pick(s, K, mid + 1, hi)

\* re.sub(r'[\*\#]', '', text)
StripMarkers(s) ==
    Pick(s, {i \in 1..Len(s) : s[i] \notin {"*", "#"}}, 1, Len(s))

\* position of the first ']' or newline after position i, 0 when there is
\* none: '.' does not match a newline, so the lazy '.*?' started at i ends
\* at whichever of the two comes first
FirstStop(s, i) ==
    LET stops == {j \in (i + 1)..Len(s) : s[j] \in {"]", NL}}
    IN  IF stops = {} THEN 0 ELSE SetMin(stops)

\* r'\[.*?\]' matches at i
MatchesAt(s, i) ==
    s[i] = "[" /\ FirstStop(s, i) # 0 /\ s[FirstStop(s, i)] = "]"

\* re.sub(r'\[.*?\]', '', text): leftmost, non-overlapping, lazy matches.
\* A '[' at which the pattern matches is either the start of a match or
\* lies inside the match of an earlier '[' that ends at the same ']', so
\* the removed positions are those covered by the match at some '['.
RemoveBracketed(s) ==
    LET starts == {i \in 1..Len(s) : s[i] = "["}
    IN  Pick(s, {p \in 1..Len(s) :
                    ~\E i \in starts :
                        i <= p /\ MatchesAt(s, i) /\ p <= FirstStop(s, i)},
             1, Len(s))

\* re.sub(r'\s+', ' ', text): one space for each run of whitespace
CollapseWhitespace(s) ==
    Pick([i \in 1..Len(s) |-> IF s[i] \in Whitespace THEN " " ELSE s[i]],
         {i \in 1..Len(s) :
             ~(s[i] \in Whitespace /\ i > 1 /\ s[i - 1] \in Whitespace)},
         1, Len(s))

\* str.strip()
Strip(s) ==
    LET solid == {i \in 1..Len(s) : s[i] \notin Whitespace}
    IN  IF solid = {} THEN <<>> ELSE SubSeq(s, SetMin(solid), SetMax(solid))

clean_text_for_tts(text) ==
    Strip(CollapseWhitespace(RemoveBracketed(StripMarkers(text))))

\* --------------------------------------------------------- JSON values
JNull == [t |-> "null"]
JNum(n) == [t |-> "num", n |-> n]
JStr(s) == [t |-> "str", s |-> s]
JList(l) == [t |-> "list", l |-> l]
EmptyObj == [t |-> "obj"]
IsStr(v) == v.t = "str"

\* a Python expression either yields a value or raises
Ok(v) == [ok |-> TRUE, v |-> v, exc |-> "none"]
Raise(e) == [ok |-> FALSE, v |-> JNull, exc |-> e]

\* obj.get(key, default): only a dict has .get
Get(obj, key, default) ==
    IF obj.t # "obj" THEN Raise("AttributeError")
    ELSE IF key \in DOMAIN obj THEN Ok(obj[key]) ELSE Ok(default)

\* x[0]
Index0(x) ==
    CASE x.t = "list" -> IF x.l = <<>> THEN Raise("IndexError") ELSE Ok(x.l[1])
      [] x.t = "str"  -> IF x.s = <<>> THEN Raise("IndexError")
                         ELSE Ok(JStr(<<x.s[1]>>))
      [] x.t = "obj"  -> Raise("KeyError")
      [] OTHER        -> Raise("TypeError")

\* candidate = data.get('candidates', [{}])[0]
\* part = candidate.get('content', {}).get('parts', [{}])[0]
FirstPart(data) ==
    LET cands == Get(data, "candidates", JList(<<EmptyObj>>)) IN
    IF ~cands.ok THEN cands ELSE
    LET candidate == Index0(cands.v) IN
    IF ~candidate.ok THEN candidate ELSE
    LET content == Get(candidate.v, "content", EmptyObj) IN
    IF ~content.ok THEN content ELSE
    LET parts == Get(content.v, "parts", JList(<<EmptyObj>>)) IN
    IF ~parts.ok THEN parts ELSE
    Index0(parts.v)

\* ------------------------------------------------- provider responses
\* the bodies a provider can answer a 2xx with, built level by level
TextVals(texts) == {JNull, JNum(7)} \cup {JStr(s) : s \in texts}
PartVals(texts) ==
    {EmptyObj, JNull, JStr(<<"a">>)}
        \cup {[t |-> "obj", text |-> v] : v \in TextVals(texts)}
PartsVals(texts) ==
    {JNull, JList(<<>>)} \cup {JList(<<p>>) : p \in PartVals(texts)}
ContentVals(texts) ==
    {EmptyObj, JNull} \cup {[t |-> "obj", parts |-> ps] : ps \in PartsVals(texts)}
CandidateVals(texts) ==
    {EmptyObj, JNull} \cup {[t |-> "obj", content |-> c] : c \in ContentVals(texts)}
CandidatesVals(texts) ==
    {JNull, JList(<<>>), EmptyObj}
        \cup {JList(<<c>>) : c \in CandidateVals(texts)}
DataVals(texts) ==
    {EmptyObj, JNull, JList(<<>>)}
        \cup {[t |-> "obj", candidates |-> cs] : cs \in CandidatesVals(texts)}

\* what requests.post(...), raise_for_status() and response.json() can do:
\* raise a RequestException (timeout, connection error, HTTPError on a
\* non-2xx status), fail to parse the body, or yield the parsed body.
\* response.json() on an unparsable body raises requests' JSONDecodeError,
\* a RequestException in requests >= 2.27 and a plain ValueError before.
TransientKinds == {"timeout", "connection_error", "http_error"}
FailureKinds == TransientKinds \cup {"unparsable_request_exc", "unparsable_value_error"}
HttpOutcomes(texts) ==
    {[kind |-> k, data |-> JNull] : k \in FailureKinds}
        \cup {[kind |-> "json", data |-> d] : d \in DataVals(texts)}

\* the exception class the try body raises before the parse, "none" if none
HttpException(outcome) ==
    CASE outcome.kind \in TransientKinds -> "RequestException"
      [] outcome.kind = "unparsable_request_exc" -> "RequestException"
      [] outcome.kind = "unparsable_value_error" -> "ValueError"
      [] OTHER -> "none"

\* ------------------------------------------------------- stage functions
\* Python truthiness of an optional string: None and '' are falsy
Falsy(v) == v.t = "null" \/ (v.t = "str" /\ v.s = <<>>)

\* the try block without .strip() on the text part
SttTranscript_NoStrip(outcome) ==
    IF HttpException(outcome) # "none" THEN JNull
    ELSE LET part == FirstPart(outcome.data) IN
         IF ~part.ok THEN JNull
         ELSE LET text == Get(part.v, "text", JStr(<<>>)) IN
              IF ~text.ok \/ ~IsStr(text.v) THEN JNull
              ELSE IF text.v.s # <<>> THEN text.v ELSE JNull

\* transcribe_with_gemini, the try block: text or None
SttTranscript(outcome) ==
    IF HttpException(outcome) # "none" THEN JNull
    ELSE LET part == FirstPart(outcome.data) IN
         IF ~part.ok THEN JNull
         ELSE LET text == Get(part.v, "text", JStr(<<>>)) IN
              IF ~text.ok \/ ~IsStr(text.v) THEN JNull   \* no .get / no .strip
              ELSE LET transcribed_text == Strip(text.v.s) IN
                   IF transcribed_text # <<>> THEN JStr(transcribed_text)
                   ELSE JNull

\* the first except clause answering with the text of the second
LlmFallbackFor_Swapped(exc) == INVALID_DATA_TEXT

\* the two except clauses of the LLM call
LlmFallbackFor(exc) ==
    IF exc = "RequestException" THEN CONNECTION_FAILURE_TEXT
    ELSE INVALID_DATA_TEXT

\* step 1 without the `except Exception` clause assigning a fallback: a
\* failed parse leaves no text at all
LlmReplyText_NoParseFallback(outcome) ==
    IF HttpException(outcome) = "RequestException"
    THEN JStr(CONNECTION_FAILURE_TEXT)
    ELSE IF HttpException(outcome) # "none" THEN JNull
    ELSE LET part == FirstPart(outcome.data) IN
         IF ~part.ok THEN JNull
         ELSE LET text == Get(part.v, "text", JStr(DEFAULT_ERROR_MESSAGE)) IN
              IF ~text.ok THEN JNull ELSE text.v

\* step 1 with '' as the default of the text part, as in the STT parse
LlmReplyText_EmptyDefault(outcome) ==
    IF HttpException(outcome) # "none"
    THEN JStr(LlmFallbackFor(HttpException(outcome)))
    ELSE LET part == FirstPart(outcome.data) IN
         IF ~part.ok THEN JStr(LlmFallbackFor(part.exc))
         ELSE LET text == Get(part.v, "text", JStr(<<>>)) IN
              IF ~text.ok THEN JStr(LlmFallbackFor(text.exc))
              ELSE text.v

\* get_llm_response_and_tts_audio, step 1: the value bound to text_response
LlmReplyText(outcome) ==
    IF HttpException(outcome) # "none"
    THEN JStr(LlmFallbackFor(HttpException(outcome)))
    ELSE LET part == FirstPart(outcome.data) IN
         IF ~part.ok THEN JStr(LlmFallbackFor(part.exc))
         ELSE LET text == Get(part.v, "text", JStr(DEFAULT_ERROR_MESSAGE)) IN
              IF ~text.ok THEN JStr(LlmFallbackFor(text.exc))
              ELSE text.v

\* the prompt without the `if not transcribed_text` substitution
PromptFor_NoFallback(transcribed_text) ==
    IF IsStr(transcribed_text) THEN transcribed_text.s ELSE <<>>

\* process_voice_command: the prompt handed to the LLM stage
PromptFor(transcribed_text) ==
    IF Falsy(transcribed_text) THEN CLARIFICATION_PROMPT
    ELSE transcribed_text.s

\* the boundary without the `if not audio_data` check
Boundary_NoEmptyCheck(mimetype, audio_data) ==
    IF mimetype = OCTET_STREAM THEN 200 ELSE 415

\* gTTS(text=cleaned_response, lang='en'): the text that is synthesized
TtsInput_Raw(text_response, cleaned_response) == text_response.s

TtsInput(text_response, cleaned_response) == cleaned_response

\* `if not base64_wav_data: return None` -- no request without a payload
SkipsStt_Never(base64_wav_data) == FALSE

SkipsStt(base64_wav_data) == base64_wav_data = 0

\* handle_voice_input: the boundary decision
Boundary(mimetype, audio_data) ==
    IF mimetype = OCTET_STREAM
    THEN IF audio_data = 0 THEN 400 ELSE 200
    ELSE 415

\* ------------------------------------------------------------- audio
\* an AudioSegment: a number of sample frames and its profile
NativeRates == {16000, 24000}
NativeWidths == {1, 2}
NativeChannels == {1, 2}
NativeProfiles ==
    [frame_rate : NativeRates, sample_width : NativeWidths, channels : NativeChannels]

\* AudioSegment.from_file on the bytes read: one MP3 frame is 1 ms of audio
from_file(mp3_bytes, native) ==
    [frames |-> Len(mp3_bytes) * (native.frame_rate \div 1000),
     frame_rate |-> native.frame_rate,
     sample_width |-> native.sample_width,
     channels |-> native.channels]

set_frame_rate(seg, rate) ==
    [seg EXCEPT !.frames = (seg.frames * rate) \div seg.frame_rate,
                !.frame_rate = rate]
set_channels(seg, n) == [seg EXCEPT !.channels = n]
set_sample_width(seg, w) == [seg EXCEPT !.sample_width = w]

\* audio_data.export(fp, format="wav"): header plus sample payload
export_wav(seg) ==
    [size |-> WAV_HEADER_SIZE + seg.frames * seg.sample_width * seg.channels,
     frame_rate |-> seg.frame_rate,
     sample_width |-> seg.sample_width,
     channels |-> seg.channels]

\* raw_pcm_fp.seek(44); raw_pcm_fp.read()
strip_header(wav) ==
    [bytes |-> IF wav.size > WAV_HEADER_SIZE THEN wav.size - WAV_HEADER_SIZE ELSE 0,
     frame_rate |-> wav.frame_rate,
     sample_width |-> wav.sample_width,
     channels |-> wav.channels]

\* the conversion without .set_channels(1)
ConvertToPcm_NoChannels(mp3_bytes, native) ==
    strip_header(export_wav(
        set_sample_width(
            set_frame_rate(from_file(mp3_bytes, native), TARGET_FRAME_RATE),
            TARGET_SAMPLE_WIDTH)))

\* lines 248-258: decode, convert to the target profile, export, strip
ConvertToPcm(mp3_bytes, native) ==
    strip_header(export_wav(
        set_sample_width(
            set_channels(
                set_frame_rate(from_file(mp3_bytes, native), TARGET_FRAME_RATE),
                TARGET_CHANNELS),
            TARGET_SAMPLE_WIDTH)))

\* base64 of a WAV of n payload bytes: its length in characters
Base64Len(n) == 4 * ((WAV_HEADER_SIZE + n + 2) \div 3)

\* ---------------------------------------------------------- responses
NoPcm == [bytes |-> 0, frame_rate |-> 0, sample_width |-> 0, channels |-> 0]
NoResponse == [kind |-> "none", status |-> 0, body |-> "", pcm |-> NoPcm]
JsonError(status, msg) ==
    [kind |-> "json_error", status |-> status, body |-> msg, pcm |-> NoPcm]
PcmResponse(pcm) ==
    [kind |-> "pcm", status |-> 200, body |-> OCTET_STREAM, pcm |-> pcm]
SentinelResponse ==
    [kind |-> "sentinel", status |-> 500, body |-> TTS_CONVERSION_ERROR, pcm |-> NoPcm]
\* an exception that leaves the view function: the framework answers 500
UnhandledException(exc) ==
    [kind |-> "unhandled", status |-> 500, body |-> exc, pcm |-> NoPcm]

\* ---------------------------------------------------------------- state
VARIABLES
    pc,                 \* position of the request in the pipeline
    mimetype,           \* request.mimetype
    audio_data,         \* request.data, as its length in bytes
    base64_wav_data,    \* length of the base64 WAV, 0 while None
    stt_kind,           \* what the STT provider call did
    stt_data,           \* the body the STT provider answered with, while
                        \* transcribe_with_gemini holds it
    stt_posts,          \* STT network calls issued
    transcribed_text,   \* result of transcribe_with_gemini
    prompt_text,        \* argument of get_llm_response_and_tts_audio
    llm_outcome,        \* what the LLM provider call did
    text_response,      \* the reply text (a JSON value: str, null, number)
    cleaned_response,   \* clean_text_for_tts(text_response)
    tts_text,           \* the text handed to gTTS
    mp3_fp,             \* the in-memory MP3 stream
    mp3_pos,            \* its read position
    save_outcome,       \* what the debug save did
    debug_file,         \* debug_audio_files/response_audio.mp3
    decode_env,         \* whether the decoder works, and the native profile
    tts_result,         \* how the synthesis/conversion try block ended
    response,           \* what the request returns
    calls,              \* the stages attempted, in order
    c_pc, c_in, c_once, c_twice,  \* sanitizer runs on drawn strings
    h_pc, h_wav, h_out,           \* header strip on drawn WAV streams
    q_pc,               \* two concurrent requests: position of each
    q_mp3,              \* each request's in-memory MP3 stream
    q_pos,              \* and its read position
    q_save,             \* what each request's debug save did
    q_env,              \* each request's decoder
    q_response,         \* what each request returns
    disk_dir,           \* whether debug_audio_files exists
    disk_file,          \* debug_audio_files/response_audio.mp3, shared
    disk_writers        \* the requests that truncated or wrote that file

vars == <<pc, mimetype, audio_data, base64_wav_data, stt_kind, stt_data,
          stt_posts, tts_text, transcribed_text, prompt_text, llm_outcome, text_response,
          cleaned_response, mp3_fp, mp3_pos, save_outcome, debug_file,
          decode_env, tts_result, response, calls, c_pc, c_in, c_once, c_twice,
          h_pc, h_wav, h_out, q_pc, q_mp3, q_pos, q_save, q_env, q_response,
          disk_dir, disk_file, disk_writers>>

pipeVars == <<pc, mimetype, audio_data, base64_wav_data, stt_kind, stt_data,
              stt_posts, tts_text, transcribed_text, prompt_text, llm_outcome, text_response,
              cleaned_response, mp3_fp, mp3_pos, save_outcome, debug_file,
              decode_env, tts_result, response, calls>>
cleanVars == <<c_pc, c_in, c_once, c_twice>>
stripVars == <<h_pc, h_wav, h_out>>
concVars == <<q_pc, q_mp3, q_pos, q_save, q_env, q_response,
              disk_dir, disk_file, disk_writers>>

NoOutcome == [kind |-> "none", data |-> JNull]
NoDecode == [ok |-> FALSE, native |-> [frame_rate |-> 0, sample_width |-> 0, channels |-> 0]]
MimeTypes == {OCTET_STREAM, "text/plain"}

Requests == {1, 2}
NoStrip == [error |-> FALSE, pcm |-> NoPcm]
NoWav == [size |-> 0, frame_rate |-> 0, sample_width |-> 0, channels |-> 0]

\* no sanitizer run, no header strip, no concurrent requests
CleanIdle == c_pc = "off" /\ c_in = <<>> /\ c_once = <<>> /\ c_twice = <<>>
StripIdle == h_pc = "off" /\ h_wav = NoWav /\ h_out = NoStrip
ConcIdle ==
    /\ q_pc = [r \in Requests |-> "off"]
    /\ q_mp3 = [r \in Requests |-> <<>>]
    /\ q_pos = [r \in Requests |-> 0]
    /\ q_save = [r \in Requests |-> "none"]
    /\ q_env = [r \in Requests |-> NoDecode]
    /\ q_response = [r \in Requests |-> NoResponse]
    /\ disk_dir = FALSE
    /\ disk_file = <<>>
    /\ disk_writers = {}

PipeInit ==
    /\ pc = "idle"
    /\ mimetype = ""
    /\ audio_data = 0
    /\ base64_wav_data = 0
    /\ stt_kind = "none"
    /\ stt_data = JNull
    /\ tts_text = <<>>
    /\ stt_posts = 0
    /\ transcribed_text = JNull
    /\ prompt_text = <<>>
    /\ llm_outcome = NoOutcome
    /\ text_response = JNull
    /\ cleaned_response = <<>>
    /\ mp3_fp = <<>>
    /\ mp3_pos = 0
    /\ save_outcome = "none"
    /\ debug_file = <<>>
    /\ decode_env = NoDecode
    /\ tts_result = "none"
    /\ response = NoResponse
    /\ calls = <<>>

Init ==
    /\ PipeInit
    /\ c_pc = "off" /\ c_in = <<>> /\ c_once = <<>> /\ c_twice = <<>>
    /\ StripIdle
    /\ ConcIdle

\* ------------------------------------------------------------- actions
\* handle_voice_input: reject at the boundary or enter process_voice_command,
\* whose first statement calls transcribe_with_gemini
HandleVoiceInput ==
    /\ pc = "idle"
    /\ \E mt \in MimeTypes, n \in 0..MaxPcmIn :
        /\ mimetype' = mt
        /\ audio_data' = n
        /\ CASE Boundary(mt, n) = 400 ->
                   /\ response' = JsonError(400, "No audio data received")
                   /\ pc' = "done"
                   /\ calls' = calls
             [] Boundary(mt, n) = 415 ->
                   /\ response' = JsonError(415, "Unsupported media type")
                   /\ pc' = "done"
                   /\ calls' = calls
             [] OTHER ->
                   /\ response' = response
                   /\ pc' = "wrap"
                   /\ calls' = Append(calls, "stt")
    /\ UNCHANGED <<base64_wav_data, stt_kind, stt_posts, transcribed_text,
                   prompt_text, llm_outcome, text_response, cleaned_response,
                   mp3_fp, mp3_pos, save_outcome, debug_file, decode_env, tts_result>>
    /\ UNCHANGED <<stt_data, tts_text>>
    /\ UNCHANGED <<cleanVars, stripVars, concVars>>

\* convert_raw_pcm_to_wav_base64 and the `if not base64_wav_data` return
ConvertRawPcm ==
    /\ pc = "wrap"
    /\ \E wrapped \in BOOLEAN :
        /\ base64_wav_data' = IF wrapped THEN Base64Len(audio_data) ELSE 0
        /\ IF SkipsStt(base64_wav_data')
           THEN /\ stt_kind' = "wrap_failed"
                /\ transcribed_text' = JNull
                /\ pc' = "stt_returned"
           ELSE /\ pc' = "stt_post"
                /\ UNCHANGED <<stt_kind, transcribed_text>>
    /\ UNCHANGED <<mimetype, audio_data, stt_posts, prompt_text, llm_outcome,
                   text_response, cleaned_response, mp3_fp, mp3_pos,
                   save_outcome, debug_file, decode_env, tts_result, response, calls>>
    /\ UNCHANGED <<stt_data, tts_text>>
    /\ UNCHANGED <<cleanVars, stripVars, concVars>>

\* transcribe_with_gemini: the provider call and the parse of its answer
SttPost ==
    /\ pc = "stt_post"
    /\ \E outcome \in HttpOutcomes(SeqsUpTo(TranscriptAlphabet, MaxTranscriptLen)) :
        /\ stt_kind' = outcome.kind
        /\ stt_data' = outcome.data
        /\ transcribed_text' = SttTranscript(outcome)
    /\ stt_posts' = stt_posts + 1
    /\ pc' = "stt_returned"
    /\ UNCHANGED <<mimetype, audio_data, base64_wav_data, prompt_text,
                   llm_outcome, text_response, cleaned_response, mp3_fp,
                   mp3_pos, save_outcome, debug_file, decode_env, tts_result, response,
                   calls>>
    /\ UNCHANGED tts_text
    /\ UNCHANGED <<cleanVars, stripVars, concVars>>

\* process_voice_command after the STT stage returned: choose the prompt and
\* enter get_llm_response_and_tts_audio, which presets the default message
EnterLlmStage ==
    /\ pc = "stt_returned"
    /\ prompt_text' = PromptFor(transcribed_text)
    /\ stt_data' = JNull      \* a local of transcribe_with_gemini, gone
    /\ text_response' = JStr(DEFAULT_ERROR_MESSAGE)
    /\ pc' = "llm_post"
    /\ UNCHANGED <<mimetype, audio_data, base64_wav_data, stt_kind, stt_posts,
                   transcribed_text, llm_outcome, cleaned_response, mp3_fp,
                   mp3_pos, save_outcome, debug_file, decode_env, tts_result, response,
                   calls>>
    /\ UNCHANGED tts_text
    /\ UNCHANGED <<cleanVars, stripVars, concVars>>

\* the LLM provider call and the parse of its answer
LlmPost ==
    /\ pc = "llm_post"
    /\ \E outcome \in HttpOutcomes(SeqsUpTo(ReplyAlphabet, MaxReplyLen)) :
        /\ llm_outcome' = outcome
        /\ text_response' = LlmReplyText(outcome)
    /\ calls' = Append(calls, "llm")
    /\ pc' = "clean"
    /\ UNCHANGED <<mimetype, audio_data, base64_wav_data, stt_kind, stt_posts,
                   transcribed_text, prompt_text, cleaned_response, mp3_fp,
                   mp3_pos, save_outcome, debug_file, decode_env, tts_result, response>>
    /\ UNCHANGED <<stt_data, tts_text>>
    /\ UNCHANGED <<cleanVars, stripVars, concVars>>

\* cleaned_response = clean_text_for_tts(text_response), outside any try:
\* re.sub raises TypeError on a value that is not a string
CleanReply ==
    /\ pc = "clean"
    /\ IF IsStr(text_response)
       THEN /\ cleaned_response' = clean_text_for_tts(text_response.s)
            /\ pc' = "tts"
            /\ response' = response
       ELSE /\ cleaned_response' = cleaned_response
            /\ pc' = "done"
            /\ response' = UnhandledException("TypeError")
    /\ UNCHANGED <<mimetype, audio_data, base64_wav_data, stt_kind, stt_posts,
                   transcribed_text, prompt_text, llm_outcome, text_response,
                   mp3_fp, mp3_pos, save_outcome, debug_file, decode_env, tts_result,
                   calls>>
    /\ UNCHANGED <<stt_data, tts_text>>
    /\ UNCHANGED <<cleanVars, stripVars, concVars>>

\* gTTS(...), write_to_fp(mp3_fp), mp3_fp.seek(0)
Synthesize ==
    /\ pc = "tts"
    /\ calls' = Append(calls, "tts")
    /\ tts_text' = TtsInput(text_response, cleaned_response)
    /\ \/ \E len \in 1..MaxMp3 :
            /\ mp3_fp' = [i \in 1..len |-> i]
            /\ mp3_pos' = 0
            /\ pc' = "debug_save"
            /\ response' = response
            /\ tts_result' = tts_result
       \/ /\ UNCHANGED <<mp3_fp, mp3_pos>>
          /\ pc' = "done"
          /\ response' = SentinelResponse
          /\ tts_result' = "synth_failed"
    /\ UNCHANGED <<mimetype, audio_data, base64_wav_data, stt_kind, stt_posts,
                   transcribed_text, prompt_text, llm_outcome, text_response,
                   cleaned_response, save_outcome, debug_file, decode_env>>
    /\ UNCHANGED stt_data
    /\ UNCHANGED <<cleanVars, stripVars, concVars>>

\* what mp3_fp.read() returns
ReadStream(stream, pos) == SubSeq(stream, pos + 1, Len(stream))

\* where the stream stands after the debug save: the inner except is
\* entered before mp3_fp.seek(0) when a step of the save raises
PosAfterSave(outcome, stream, pos) ==
    CASE outcome = "saved" -> 0
      [] outcome = "write_failed" -> Len(stream)
      [] OTHER -> pos

SaveOutcomes == {"saved", "makedirs_failed", "open_failed", "write_failed"}

\* the debug save with its own try/except
DebugSave ==
    /\ pc = "debug_save"
    /\ \E outcome \in SaveOutcomes :
        /\ save_outcome' = outcome
        /\ mp3_pos' = PosAfterSave(outcome, mp3_fp, mp3_pos)
        /\ debug_file' = CASE outcome = "saved" -> ReadStream(mp3_fp, mp3_pos)
                           [] outcome = "write_failed" -> <<>>
                           [] OTHER -> debug_file
    /\ pc' = "decode"
    /\ UNCHANGED <<mimetype, audio_data, base64_wav_data, stt_kind, stt_posts,
                   transcribed_text, prompt_text, llm_outcome, text_response,
                   cleaned_response, mp3_fp, decode_env, tts_result, response, calls>>
    /\ UNCHANGED <<stt_data, tts_text>>
    /\ UNCHANGED <<cleanVars, stripVars, concVars>>

\* AudioSegment.from_file ... Response(final_pcm_data), or the outer except
DecodeAndEmit ==
    /\ pc = "decode"
    /\ \E env \in {NoDecode} \cup {[ok |-> TRUE, native |-> p] : p \in NativeProfiles} :
        /\ decode_env' = env
        /\ LET mp3_bytes == ReadStream(mp3_fp, mp3_pos) IN
           IF env.ok /\ mp3_bytes # <<>>
           THEN /\ response' = PcmResponse(ConvertToPcm(mp3_bytes, env.native))
                /\ tts_result' = "ok"
           ELSE /\ response' = SentinelResponse
                /\ tts_result' = "convert_failed"
    /\ mp3_pos' = Len(mp3_fp)
    /\ pc' = "done"
    /\ UNCHANGED <<mimetype, audio_data, base64_wav_data, stt_kind, stt_posts,
                   transcribed_text, prompt_text, llm_outcome, text_response,
                   cleaned_response, mp3_fp, save_outcome, debug_file, calls>>
    /\ UNCHANGED <<stt_data, tts_text>>
    /\ UNCHANGED <<cleanVars, stripVars, concVars>>

Next ==
    \/ HandleVoiceInput
    \/ ConvertRawPcm
    \/ SttPost
    \/ EnterLlmStage
    \/ LlmPost
    \/ CleanReply
    \/ Synthesize
    \/ DebugSave
    \/ DecodeAndEmit

Spec == Init /\ [][Next]_vars

\* --------------------------------------------- sanitizer on drawn strings
InitClean ==
    /\ PipeInit
    /\ c_pc = "input"
    /\ c_in \in SeqsUpTo(CleanAlphabet, MaxCleanLen)
    /\ c_once = <<>>
    /\ c_twice = <<>>
    /\ StripIdle
    /\ ConcIdle

CleanOnce ==
    /\ c_pc = "input"
    /\ c_once' = clean_text_for_tts(c_in)
    /\ c_pc' = "once"
    /\ UNCHANGED <<c_in, c_twice>>
    /\ UNCHANGED <<pipeVars, stripVars, concVars>>

CleanTwice ==
    /\ c_pc = "once"
    /\ c_twice' = clean_text_for_tts(c_once)
    /\ c_pc' = "twice"
    /\ UNCHANGED <<c_in, c_once>>
    /\ UNCHANGED <<pipeVars, stripVars, concVars>>

NextClean == CleanOnce \/ CleanTwice

SpecClean == InitClean /\ [][NextClean]_vars

\* ---------------------------------------- header strip on drawn streams
\* byte streams of every length handed to raw_pcm_fp.seek(44); .read()
WavStreams ==
    {[size |-> n, frame_rate |-> TARGET_FRAME_RATE,
      sample_width |-> TARGET_SAMPLE_WIDTH, channels |-> TARGET_CHANNELS] :
        n \in 0..(WAV_HEADER_SIZE + MaxWavPayload)}

InitStrip ==
    /\ PipeInit
    /\ CleanIdle
    /\ ConcIdle
    /\ h_pc = "input"
    /\ h_wav \in WavStreams
    /\ h_out = NoStrip

\* seek and read on a BytesIO never raise, whatever the length
StripHeader ==
    /\ h_pc = "input"
    /\ h_out' = [error |-> FALSE, pcm |-> strip_header(h_wav)]
    /\ h_pc' = "stripped"
    /\ UNCHANGED h_wav
    /\ UNCHANGED <<pipeVars, cleanVars, concVars>>

NextStrip == StripHeader

SpecStrip == InitStrip /\ [][NextStrip]_vars

\* ------------------------------------------------ two concurrent requests
\* Each request runs in its own thread with its own locals; the directory
\* and the file of the debug save have fixed names and are shared.
ConcDecodeEnvs ==
    {NoDecode,
     [ok |-> TRUE, native |-> [frame_rate |-> 24000, sample_width |-> 2, channels |-> 1]]}

\* ways a request ends before the debug save: rejected at the boundary, a
\* reply that is not a string, a failed synthesis
EarlyResponses ==
    {JsonError(400, "No audio data received"),
     JsonError(415, "Unsupported media type"),
     UnhandledException("TypeError"),
     SentinelResponse}

\* f.write(data) on a handle opened with 'wb': from offset 0, over what
\* another handle may have written since the truncation
WriteAtStart(file, data) == data \o SubSeq(file, Len(data) + 1, Len(file))

InitConc ==
    /\ PipeInit
    /\ CleanIdle
    /\ StripIdle
    /\ q_pc = [r \in Requests |-> "idle"]
    /\ q_mp3 = [r \in Requests |-> <<>>]
    /\ q_pos = [r \in Requests |-> 0]
    /\ q_save = [r \in Requests |-> "none"]
    /\ q_env = [r \in Requests |-> NoDecode]
    /\ q_response = [r \in Requests |-> NoResponse]
    /\ disk_dir \in BOOLEAN
    /\ disk_file = <<>>
    /\ disk_writers = {}

\* handle_voice_input up to mp3_fp.seek(0): only locals and provider calls
QEnter(r) ==
    /\ q_pc[r] = "idle"
    /\ \/ \E early \in EarlyResponses :
            /\ q_response' = [q_response EXCEPT ![r] = early]
            /\ q_pc' = [q_pc EXCEPT ![r] = "done"]
            /\ UNCHANGED q_mp3
       \/ \E len \in 1..MaxMp3 :
            /\ q_mp3' = [q_mp3 EXCEPT ![r] = [i \in 1..len |-> <<r, i>>]]
            /\ q_pc' = [q_pc EXCEPT ![r] = "makedirs"]
            /\ UNCHANGED q_response
    /\ UNCHANGED <<q_pos, q_save, q_env, disk_dir, disk_file, disk_writers>>
    /\ UNCHANGED <<pipeVars, cleanVars, stripVars>>

\* os.makedirs(DEBUG_OUTPUT_DIR, exist_ok=True)
QMakedirs(r) ==
    /\ q_pc[r] = "makedirs"
    /\ \/ /\ disk_dir' = TRUE
          /\ q_pc' = [q_pc EXCEPT ![r] = "open"]
          /\ UNCHANGED q_save
       \/ /\ ~disk_dir
          /\ q_save' = [q_save EXCEPT ![r] = "makedirs_failed"]
          /\ q_pc' = [q_pc EXCEPT ![r] = "decode"]
          /\ UNCHANGED disk_dir
    /\ UNCHANGED <<q_mp3, q_pos, q_env, q_response, disk_file, disk_writers>>
    /\ UNCHANGED <<pipeVars, cleanVars, stripVars>>

\* open(full_path, 'wb'): truncates response_audio.mp3
QOpen(r) ==
    /\ q_pc[r] = "open"
    /\ \/ /\ disk_file' = <<>>
          /\ disk_writers' = disk_writers \cup {r}
          /\ q_pc' = [q_pc EXCEPT ![r] = "write"]
          /\ UNCHANGED q_save
       \/ /\ q_save' = [q_save EXCEPT ![r] = "open_failed"]
          /\ q_pc' = [q_pc EXCEPT ![r] = "decode"]
          /\ UNCHANGED <<disk_file, disk_writers>>
    /\ UNCHANGED <<q_mp3, q_pos, q_env, q_response, disk_dir>>
    /\ UNCHANGED <<pipeVars, cleanVars, stripVars>>

\* f.write(mp3_fp.read()) and the close on leaving the with block
QWrite(r) ==
    /\ q_pc[r] = "write"
    /\ q_pos' = [q_pos EXCEPT ![r] = Len(q_mp3[r])]
    /\ \/ /\ disk_file' = WriteAtStart(disk_file, ReadStream(q_mp3[r], q_pos[r]))
          /\ q_pc' = [q_pc EXCEPT ![r] = "seek"]
          /\ UNCHANGED q_save
       \/ /\ q_save' = [q_save EXCEPT ![r] = "write_failed"]
          /\ q_pc' = [q_pc EXCEPT ![r] = "decode"]
          /\ UNCHANGED disk_file
    /\ UNCHANGED <<q_mp3, q_env, q_response, disk_dir, disk_writers>>
    /\ UNCHANGED <<pipeVars, cleanVars, stripVars>>

\* mp3_fp.seek(0) after the save
QSeek(r) ==
    /\ q_pc[r] = "seek"
    /\ q_pos' = [q_pos EXCEPT ![r] = 0]
    /\ q_save' = [q_save EXCEPT ![r] = "saved"]
    /\ q_pc' = [q_pc EXCEPT ![r] = "decode"]
    /\ UNCHANGED <<q_mp3, q_env, q_response, disk_dir, disk_file, disk_writers>>
    /\ UNCHANGED <<pipeVars, cleanVars, stripVars>>

\* the decode, conversion and response of one request
QDecode(r) ==
    /\ q_pc[r] = "decode"
    /\ \E env \in ConcDecodeEnvs :
        /\ q_env' = [q_env EXCEPT ![r] = env]
        /\ LET mp3_bytes == ReadStream(q_mp3[r], q_pos[r]) IN
           q_response' = [q_response EXCEPT ![r] =
               IF env.ok /\ mp3_bytes # <<>>
               THEN PcmResponse(ConvertToPcm(mp3_bytes, env.native))
               ELSE SentinelResponse]
    /\ q_pos' = [q_pos EXCEPT ![r] = Len(q_mp3[r])]
    /\ q_pc' = [q_pc EXCEPT ![r] = "done"]
    /\ UNCHANGED <<q_mp3, q_save, disk_dir, disk_file, disk_writers>>
    /\ UNCHANGED <<pipeVars, cleanVars, stripVars>>

NextConc ==
    \E r \in Requests :
        \/ QEnter(r)
        \/ QMakedirs(r)
        \/ QOpen(r)
        \/ QWrite(r)
        \/ QSeek(r)
        \/ QDecode(r)

SpecConc == InitConc /\ [][NextConc]_vars

\* ================================================================ claims
Admitted == calls # <<>>
Finished == pc = "done"
Attempted(stage) == \E i \in 1..Len(calls) : calls[i] = stage
PastLlm == pc \in {"clean", "tts", "debug_save", "decode", "done"} /\ Attempted("llm")
PastDispatch == pc \in {"llm_post", "clean", "tts", "debug_save", "decode", "done"} /\ Admitted

\* C1: every admitted request ends with either non-empty PCM and a success
\* status or the sentinel body with status 500; no exception escapes.
C1_AudioOrSentinel ==
    (Finished /\ Admitted) =>
        \/ response.kind = "pcm" /\ response.status = 200 /\ response.pcm.bytes > 0
        \/ response = SentinelResponse

\* C2: the prompt handed to the LLM stage is the clarification text whenever
\* the STT stage yielded no text, otherwise the non-empty trimmed transcript;
\* it is never empty, and a finished admitted request has called the LLM.
C2_PromptNeverEmpty ==
    /\ PastDispatch =>
        /\ prompt_text # <<>>
        /\ Falsy(transcribed_text) => prompt_text = CLARIFICATION_PROMPT
        /\ \/ prompt_text = CLARIFICATION_PROMPT
           \/ /\ transcribed_text = JStr(prompt_text)
              /\ Strip(prompt_text) = prompt_text
    /\ (Finished /\ Admitted) => Attempted("llm")

C2_Witness ==
    /\ Finished /\ Attempted("llm")
    /\ stt_kind = "json" /\ transcribed_text = JNull
    /\ prompt_text = CLARIFICATION_PROMPT

\* the LLM provider answered 2xx with a body that supplies no first-part text
LlmNoTextField ==
    /\ llm_outcome.kind = "json"
    /\ LET part == FirstPart(llm_outcome.data) IN
       ~(part.ok /\ part.v.t = "obj" /\ "text" \in DOMAIN part.v)
LlmFailedOrMalformed == llm_outcome.kind \in FailureKinds \/ LlmNoTextField

TtsOrConversionFailed == tts_result \in {"synth_failed", "convert_failed"}

\* C4: a synthesis or conversion failure returns the sentinel with status
\* 500 and no PCM, and it is the only way an admitted request ends without
\* audio; when synthesis and conversion succeed the request returns PCM.
C4_OnlyTtsFailureLacksAudio ==
    (Finished /\ Admitted) =>
        /\ TtsOrConversionFailed =>
              response = SentinelResponse /\ response.pcm.bytes = 0
        /\ response.kind # "pcm" => TtsOrConversionFailed
        /\ tts_result = "ok" => response.kind = "pcm" /\ response.status = 200

\* C5: whichever step of the debug save fails, a working decoder still
\* reads the whole stream and the request returns the PCM it would have
\* returned had the save succeeded.
C5_SaveNeverChangesResponse ==
    (Finished /\ save_outcome # "none" /\ decode_env.ok) =>
        response = PcmResponse(ConvertToPcm(mp3_fp, decode_env.native))

\* C6: sanitizing twice gives what sanitizing once gives.
C6_Idempotent == c_pc = "twice" => c_twice = c_once

HasChar(s, chars) == \E i \in 1..Len(s) : s[i] \in chars
HasBracketedSpan(s) ==
    \E i \in 1..Len(s) : \E j \in (i + 1)..Len(s) : s[i] = "[" /\ s[j] = "]"
WhitespaceNormal(s) ==
    /\ ~HasChar(s, Whitespace \ {" "})
    /\ s # <<>> => s[1] # " " /\ s[Len(s)] # " "
    /\ \A i \in 1..(Len(s) - 1) : ~(s[i] = " " /\ s[i + 1] = " ")

\* C7: the sanitized text has no '*' or '#', no bracketed span, only single
\* spaces between non-space characters, no leading or trailing whitespace;
\* the empty string maps to the empty string.
C7_CleanOutput ==
    c_pc \in {"once", "twice"} =>
        /\ ~HasChar(c_once, {"*", "#"})
        /\ ~HasBracketedSpan(c_once)
        /\ WhitespaceNormal(c_once)
        /\ c_in = <<>> => c_once = <<>>

\* C8: an admitted request attempts the STT, LLM and TTS stages exactly
\* once each, in that order: the attempts so far are always a prefix of
\* STT, LLM, TTS, and a finished request has made all three.
StageOrder == <<"stt", "llm", "tts">>
C8_EachStageOnceInOrder ==
    /\ Len(calls) <= 3 /\ calls = SubSeq(StageOrder, 1, Len(calls))
    /\ (Finished /\ Admitted) => calls = StageOrder

Rejected ==
    /\ Finished /\ response.kind = "json_error"
    /\ calls = <<>> /\ stt_posts = 0
    /\ llm_outcome = NoOutcome /\ tts_result = "none"

\* C9 (as stated): an empty body is answered 400 and a wrong media type
\* 415, and neither enters the pipeline.
C9_EmptyIs400WrongTypeIs415 ==
    pc # "idle" =>
        /\ audio_data = 0 => Rejected /\ response.status = 400
        /\ mimetype # OCTET_STREAM => Rejected /\ response.status = 415

\* C9 (amended): a wrong media type is answered 415 whether or not the body
\* is empty, an empty body of the right type 400; neither enters the
\* pipeline, and every other request does.
C9_RejectedAtBoundary ==
    pc # "idle" =>
        /\ mimetype # OCTET_STREAM => Rejected /\ response.status = 415
        /\ (mimetype = OCTET_STREAM /\ audio_data = 0)
              => Rejected /\ response.status = 400
        /\ (mimetype = OCTET_STREAM /\ audio_data > 0) => Admitted

C9_Witness ==
    /\ Finished /\ mimetype # OCTET_STREAM /\ audio_data = 0
    /\ response.status = 415 /\ calls = <<>>

\* C10: a transient STT failure puts the clarification prompt in place of
\* the transcript, a transient LLM failure the connection-failure text in
\* place of the reply; the request goes on to synthesis and, when synthesis
\* and conversion succeed, returns PCM with a success status.
C10_TransientFailureRecovered ==
    /\ (stt_kind \in TransientKinds /\ PastDispatch)
          => prompt_text = CLARIFICATION_PROMPT
    /\ (stt_kind \in TransientKinds /\ Finished) => Attempted("llm")
    /\ (llm_outcome.kind \in TransientKinds /\ PastLlm)
          => /\ text_response = JStr(CONNECTION_FAILURE_TEXT)
             /\ response.kind # "unhandled"
             /\ Finished => Attempted("tts")
    /\ (Finished /\ tts_result = "ok"
            /\ (stt_kind \in TransientKinds \/ llm_outcome.kind \in TransientKinds))
          => response.kind = "pcm" /\ response.status = 200

C10_Witness ==
    /\ Finished
    /\ stt_kind = "timeout" /\ llm_outcome.kind = "http_error"
    /\ prompt_text = CLARIFICATION_PROMPT
    /\ cleaned_response = CONNECTION_FAILURE_TEXT
    /\ response.kind = "pcm" /\ response.status = 200

\* the text of the first part of the first candidate of a body that has the
\* documented shape {candidates: [{content: {parts: [{text: <string>}]}}]},
\* and <<>> for every other body
HasKey(v, key) == v.t = "obj" /\ key \in DOMAIN v
FirstOf(v) == IF v.t = "list" /\ v.l # <<>> THEN v.l[1] ELSE JNull
Field(v, key) == IF HasKey(v, key) THEN v[key] ELSE JNull
DocumentedPart(data) ==
    FirstOf(Field(Field(FirstOf(Field(data, "candidates")), "content"), "parts"))
DocumentedText(data) ==
    LET text == Field(DocumentedPart(data), "text")
    IN  IF text.t = "str" THEN text.s ELSE <<>>

\* t is s without its leading and trailing whitespace
IsTrimOf(t, s) ==
    \E a \in 1..(Len(s) + 1) : \E b \in 0..Len(s) :
        /\ t = SubSeq(s, a, b)
        /\ \A i \in 1..(a - 1) : s[i] \in Whitespace
        /\ \A i \in (b + 1)..Len(s) : s[i] \in Whitespace
        /\ t # <<>> => t[1] \notin Whitespace /\ t[Len(t)] \notin Whitespace

SttReturned == Admitted /\ pc = "stt_returned"

\* C11: transcribe_with_gemini always returns: None on a wrap failure, a
\* transport failure, a non-2xx status, an unparsable or malformed body or a
\* text that is empty or only whitespace, otherwise the first candidate's
\* first text part without its surrounding whitespace.
C11_TextOrNone ==
    SttReturned =>
        /\ response = NoResponse
        /\ stt_kind # "json" => transcribed_text = JNull
        /\ stt_kind = "json" =>
              LET trimmed == CHOOSE t \in SeqsUpTo(TranscriptAlphabet, MaxTranscriptLen) :
                                 IsTrimOf(t, DocumentedText(stt_data))
              IN  transcribed_text = IF trimmed = <<>> THEN JNull ELSE JStr(trimmed)

C11_Witness ==
    /\ SttReturned /\ stt_kind = "json"
    /\ transcribed_text = JStr(<<"a">>)
    /\ DocumentedText(stt_data) = <<"a", " ">>

\* C13: a PCM response is 16000 Hz, 16-bit, mono and holds the resampled
\* duration of the stream, whatever profile the MP3 decoded to.
C13_TargetProfile ==
    response.kind = "pcm" =>
        /\ response.pcm.frame_rate = 16000
        /\ response.pcm.sample_width = 2
        /\ response.pcm.channels = 1
        /\ response.pcm.bytes = Len(mp3_fp) * 16 * 2

C13_Witness ==
    /\ response.kind = "pcm"
    /\ decode_env.native = [frame_rate |-> 24000, sample_width |-> 1, channels |-> 2]
    /\ response.pcm.channels = 1

\* C15: the text handed to gTTS is the sanitized reply text, never the raw
\* one: it is clean_text_for_tts of text_response and carries no marker.
C15_OnlySanitizedToTts ==
    Attempted("tts") =>
        /\ IsStr(text_response)
        /\ tts_text = clean_text_for_tts(text_response.s)
        /\ tts_text = cleaned_response
        /\ ~HasChar(tts_text, {"*", "#"})

C15_Witness ==
    /\ Attempted("tts")
    /\ llm_outcome.kind = "json"
    /\ text_response = JStr(<<"*", "a">>)
    /\ tts_text = <<"a">>

WrapFailed == Admitted /\ pc \notin {"idle", "wrap"} /\ base64_wav_data = 0

\* C16: when the WAV wrap fails the STT stage returns None without a
\* network call and the LLM stage is entered with the clarification prompt.
C16_WrapFailureSkipsStt ==
    WrapFailed =>
        /\ stt_posts = 0
        /\ transcribed_text = JNull
        /\ PastDispatch => prompt_text = CLARIFICATION_PROMPT
        /\ Finished => Attempted("llm")

C16_Witness ==
    /\ WrapFailed /\ Attempted("llm") /\ stt_posts = 0
    /\ prompt_text = CLARIFICATION_PROMPT

\* a key of the candidates/content/parts/text chain is absent
LlmKeyAbsent(data) ==
    /\ data.t = "obj"
    /\ \/ ~HasKey(data, "candidates")
       \/ LET candidate == FirstOf(data.candidates) IN
          /\ candidate.t = "obj"
          /\ \/ ~HasKey(candidate, "content")
             \/ /\ candidate.content.t = "obj"
                /\ \/ ~HasKey(candidate.content, "parts")
                   \/ LET part == FirstOf(candidate.content.parts) IN
                      part.t = "obj" /\ ~HasKey(part, "text")

\* the candidates list or the parts list is present and empty
LlmListEmpty(data) ==
    \/ Field(data, "candidates") = JList(<<>>)
    \/ Field(Field(FirstOf(Field(data, "candidates")), "content"), "parts") = JList(<<>>)

\* C17: an absent candidates, content, parts or text key leaves the default
\* message as reply, which is sanitized and synthesized; an empty candidates
\* or parts list gives the malformed-data text.
C17_DefaultMessageOnAbsentKey ==
    (PastLlm /\ llm_outcome.kind = "json") =>
        /\ LlmKeyAbsent(llm_outcome.data) =>
              /\ text_response = JStr(DEFAULT_ERROR_MESSAGE)
              /\ response.kind # "unhandled"
              /\ Finished => Attempted("tts") /\ tts_text = DEFAULT_ERROR_MESSAGE
        /\ LlmListEmpty(llm_outcome.data) =>
              text_response = JStr(INVALID_DATA_TEXT)

C17_Witness ==
    /\ Finished /\ llm_outcome.kind = "json"
    /\ HasKey(llm_outcome.data, "candidates")
    /\ LlmKeyAbsent(llm_outcome.data)
    /\ tts_text = DEFAULT_ERROR_MESSAGE
    /\ tts_result = "ok"

AloneResponse(r) ==
    IF q_env[r].ok /\ q_save[r] # "write_failed"
    THEN PcmResponse(ConvertToPcm(q_mp3[r], q_env[r].native))
    ELSE SentinelResponse

\* C12: two concurrent requests share no mutable state: no resource, in
\* memory or on disk, is written by both while both are running, and each
\* returns what it returns alone.
C12_NoSharedMutableState ==
    /\ Cardinality({r \in disk_writers : q_pc[r] # "done"}) <= 1
    /\ \A r \in Requests :
          (q_pc[r] = "done" /\ q_mp3[r] # <<>>) => q_response[r] = AloneResponse(r)

====
